---- MODULE Spec2Model ----
(***************************************************************************)
(* The reviews service of ZXCLOX333/Studio: a read-apply-write-retry loop  *)
(* (mutateReviewsWithRetry) over a JSON file kept in a GitHub repository   *)
(* and reached through the contents API (fetchReviewsFromGitHub,           *)
(* persistReviewsToGitHub), and the three handlers of                      *)
(* src/server/routes/reviews.ts that serve /api/reviews through it.        *)
(*                                                                         *)
(* A call is one invocation of an exported function of                     *)
(* src/server/services/githubReviews.ts, made directly or by a handler on  *)
(* a request.  Every `await` of a response is a suspension point: a call   *)
(* issues its request in one step (await fetch(...)), takes the store's    *)
(* answer (status and headers) in a later step, and reads the body of the  *)
(* answer (await response.json() or response.text()) in a step after that, *)
(* each followed by the synchronous code up to the next await or to the    *)
(* return/throw.  The answers 404 to a GET and 409 to a PUT are acted on   *)
(* without reading the body.  Calls interleave freely between those        *)
(* points; they share nothing but the remote file.                         *)
(***************************************************************************)
EXTENDS Integers, Sequences, FiniteSets, TLC

\* Bounds of the model.
NumCalls == 2
MaxAttempts == 2

Calls == 1..NumCalls
\* The `retries` arguments tried: 0 and -1 exercise the loop guard of line 188.
RetryArgs == -1..MaxAttempts

VARIABLES
  env,       \* process.env: GITHUB_TOKEN, GITHUB_OWNER, GITHUB_REPO and the
             \* three settings getMaxRetries reads
  remote,    \* the file in the repository: its blob sha and its text
  nextSha,   \* the sha the store gives to the next accepted write
  call,      \* per call: the locals of the invocation and its position
  initial,   \* history: the file as it was at the start
  accepted   \* history: the writes the store accepted, in order

vars == <<env, remote, nextSha, call, initial, accepted>>

(***************************************************************************)
(* JavaScript values                                                       *)
(***************************************************************************)
Undefined == "<undefined>"
\* !v for an environment string: undefined and "" are falsy.
Falsy(v) == v \in {Undefined, ""}
EnvValues == {Undefined, "", "set"}

\* sha?: string, with 0 standing for undefined (and for "", equally falsy).
NoSha == 0

UndefinedValue == [type |-> "undefined"]
NoError == [name |-> "none", message |-> ""]
IsError(e) == e.name # "none"

\* response.ok: the status is in the range 200-299.
Ok(status) == status \in 200..299

GitHubConfigError(msg) == [name |-> "GitHubConfigError", message |-> msg]
GitHubConflictError(msg) == [name |-> "GitHubConflictError", message |-> msg]
Error(msg) == [name |-> "Error", message |-> msg]
TypeError(msg) == [name |-> "TypeError", message |-> msg]

\* A number: a ratio of integers, Infinity or NaN.
Ratio(n, d) == [type |-> "number", kind |-> "finite", num |-> n, den |-> d]
Num(n) == Ratio(n, 1)
Infinity == [type |-> "number", kind |-> "Infinity", num |-> 1, den |-> 0]
NegInfinity == [type |-> "number", kind |-> "Infinity", num |-> -1, den |-> 0]
NaN == [type |-> "number", kind |-> "NaN", num |-> 0, den |-> 0]
IsNaN(v) == v.kind = "NaN"

\* a < b for two numbers: false when either is NaN.
Less(a, b) ==
  CASE a.kind = "NaN" \/ b.kind = "NaN" -> FALSE
    [] a.kind = "Infinity" -> a.num < 0 /\ ~(b.kind = "Infinity" /\ b.num < 0)
    [] b.kind = "Infinity" -> b.num > 0
    [] OTHER -> a.num * b.den < b.num * a.den

\* -v.
Negate(v) ==
  CASE v.kind = "NaN" -> NaN
    [] v.kind = "Infinity" -> [v EXCEPT !.num = -@]
    [] OTHER -> Ratio(-v.num, v.den)

\* A string value: its characters in order.
String(chars) == [type |-> "string", chars |-> chars]
TypeOf(v) == v.type

\* !v for a value: undefined, "", 0 and NaN are falsy.
Not(v) ==
  CASE v.type = "undefined" -> TRUE
    [] v.type = "string" -> v.chars = <<>>
    [] v.type = "number" -> v.kind = "NaN" \/ (v.kind = "finite" /\ v.num = 0)
    [] OTHER -> FALSE

\* a ?? b and a || b.
Coalesce(a, b) == IF a = UndefinedValue THEN b ELSE a
Or(a, b) == IF Not(a) THEN b ELSE a

\* s.trim(): the white space and line terminators at both ends are dropped.
\* A character that has no escape is written by its code point.
WhiteSpace ==
  {" ", "\t", "\n", "\r", "\f", "U+000B", "U+00A0", "U+1680",
   "U+2000", "U+2001", "U+2002", "U+2003", "U+2004", "U+2005", "U+2006",
   "U+2007", "U+2008", "U+2009", "U+200A", "U+2028", "U+2029", "U+202F",
   "U+205F", "U+3000", "U+FEFF"}

RECURSIVE TrimStart(_)
TrimStart(s) ==
  IF s # <<>> /\ Head(s) \in WhiteSpace THEN TrimStart(Tail(s)) ELSE s

RECURSIVE TrimEnd(_)
TrimEnd(s) ==
  IF s # <<>> /\ s[Len(s)] \in WhiteSpace
  THEN TrimEnd(SubSeq(s, 1, Len(s) - 1))
  ELSE s

StringTrim(v) == String(TrimEnd(TrimStart(v.chars)))

(***************************************************************************)
(* Number(string): the numeric value of a string, or NaN.  Values are      *)
(* exact ratios; the digit strings tried stay within the checker's         *)
(* integers.                                                               *)
(***************************************************************************)
DigitChars ==
  {"0", "1", "2", "3", "4", "5", "6", "7", "8", "9",
   "a", "b", "c", "d", "e", "f", "A", "B", "C", "D", "E", "F"}

DigitValue(ch) ==
  CASE ch = "0" -> 0 [] ch = "1" -> 1 [] ch = "2" -> 2 [] ch = "3" -> 3
    [] ch = "4" -> 4 [] ch = "5" -> 5 [] ch = "6" -> 6 [] ch = "7" -> 7
    [] ch = "8" -> 8 [] ch = "9" -> 9
    [] ch \in {"a", "A"} -> 10 [] ch \in {"b", "B"} -> 11
    [] ch \in {"c", "C"} -> 12 [] ch \in {"d", "D"} -> 13
    [] ch \in {"e", "E"} -> 14 [] OTHER -> 15

\* Every character of s is a digit of the base; s may be empty.
AllDigits(s, base) ==
  \A i \in 1..Len(s) : s[i] \in DigitChars /\ DigitValue(s[i]) < base

RECURSIVE ToInt(_, _)
ToInt(s, base) ==
  IF s = <<>> THEN 0
  ELSE ToInt(SubSeq(s, 1, Len(s) - 1), base) * base + DigitValue(s[Len(s)])

RECURSIVE Pow10(_)
Pow10(n) == IF n = 0 THEN 1 ELSE 10 * Pow10(n - 1)

RECURSIVE GCD(_, _)
GCD(a, b) == IF b = 0 THEN a ELSE GCD(b, a % b)

\* The ratio n / d (d > 0) in lowest terms.
Reduced(n, d) ==
  LET g == GCD(IF n < 0 THEN -n ELSE n, d) IN Ratio(n \div g, d \div g)

\* The index of the first character of s that is in chars, or 0.
IndexOf(s, chars) ==
  IF \E i \in 1..Len(s) : s[i] \in chars
  THEN CHOOSE i \in 1..Len(s) :
         s[i] \in chars /\ \A j \in 1..(i - 1) : s[j] \notin chars
  ELSE 0

\* Infinity, or digits with an optional fraction and exponent.
UnsignedDecimal(s) ==
  LET e == IndexOf(s, {"e", "E"})
      mantissa == IF e = 0 THEN s ELSE SubSeq(s, 1, e - 1)
      exponent == IF e = 0 THEN <<>> ELSE SubSeq(s, e + 1, Len(s))
      expSigned == exponent # <<>> /\ exponent[1] \in {"+", "-"}
      expDigits == IF expSigned THEN Tail(exponent) ELSE exponent
      dot == IndexOf(mantissa, {"."})
      whole == IF dot = 0 THEN mantissa ELSE SubSeq(mantissa, 1, dot - 1)
      frac == IF dot = 0 THEN <<>> ELSE SubSeq(mantissa, dot + 1, Len(mantissa))
      scale == ToInt(expDigits, 10)
      digits == ToInt(whole \o frac, 10) IN
  IF s = <<"I", "n", "f", "i", "n", "i", "t", "y">> THEN Infinity
  ELSE IF \/ ~AllDigits(whole, 10) \/ ~AllDigits(frac, 10)
          \/ (whole = <<>> /\ frac = <<>>)
          \/ (e # 0 /\ (expDigits = <<>> \/ ~AllDigits(expDigits, 10)))
  THEN NaN
  ELSE IF expSigned /\ exponent[1] = "-"
  THEN Reduced(digits, Pow10(Len(frac) + scale))
  ELSE IF scale >= Len(frac)
  THEN Reduced(digits * Pow10(scale - Len(frac)), 1)
  ELSE Reduced(digits, Pow10(Len(frac) - scale))

\* 0x, 0o and 0b literals.
Radix(ch) ==
  CASE ch \in {"x", "X"} -> 16 [] ch \in {"o", "O"} -> 8 [] OTHER -> 2

StringToNumber(chars) ==
  LET s == TrimEnd(TrimStart(chars)) IN
  IF s = <<>> THEN Num(0)
  ELSE IF Len(s) >= 2 /\ s[1] = "0" /\ s[2] \in {"x", "X", "o", "O", "b", "B"}
  THEN LET digits == SubSeq(s, 3, Len(s)) IN
       IF digits # <<>> /\ AllDigits(digits, Radix(s[2]))
       THEN Num(ToInt(digits, Radix(s[2])))
       ELSE NaN
  ELSE IF s[1] = "-" THEN Negate(UnsignedDecimal(Tail(s)))
  ELSE IF s[1] = "+" THEN UnsignedDecimal(Tail(s))
  ELSE UnsignedDecimal(s)

\* Number(v) for a string v.
Number(v) == StringToNumber(v.chars)

(***************************************************************************)
(* File text, JSON and base64                                              *)
(*                                                                         *)
(* A text is known by its shape: the JSON of an array, the JSON of a       *)
(* string (its characters are the items), the JSON of a value that cannot  *)
(* be iterated (an object, a number, null, a boolean), nothing but white   *)
(* space, or text that is no JSON at all.                                  *)
(***************************************************************************)
ArrayText(items) == [text |-> "array", items |-> items]
StringText(chars) == [text |-> "string", items |-> chars]
ObjectText == [text |-> "object", items |-> <<>>]
BlankText == [text |-> "blank", items |-> <<>>]
MalformedText == [text |-> "malformed", items |-> <<>>]

ArrayValue(items) == [type |-> "array", items |-> items]
ObjectValue == [type |-> "object", items |-> <<>>]

\* [...v]: the elements of an array, the characters of a string; any other
\* value here cannot be iterated and the spread throws a TypeError.
Iterable(v) == v.type \in {"array", "string"}
Spread(v) ==
  IF v.type = "string" THEN [i \in 1..Len(v.chars) |-> String(<<v.chars[i]>>)]
  ELSE v.items

\* JSON.stringify(reviews, null, 2) of a Review[].
JSONStringify(items) == ArrayText(items)

\* JSON.parse(rawContent): the value, or a SyntaxError.
JSONParse(t) ==
  CASE t.text = "array" -> [ok |-> TRUE, value |-> ArrayValue(t.items)]
    [] t.text = "string" -> [ok |-> TRUE, value |-> String(t.items)]
    [] t.text = "object" -> [ok |-> TRUE, value |-> ObjectValue]
    [] OTHER -> [ok |-> FALSE, value |-> UndefinedValue]

\* buffer.toString("utf-8").trim(): white space alone trims to "".
Trim(t) == IF t.text = "blank" THEN [text |-> "", items |-> <<>>] ELSE t
EmptyString(t) == t.text = ""

Base64Encode(t) == [base64 |-> t]
Base64Decode(b) == b.base64

\* A review: its id (which stands for createdAt too: both are new in every
\* invocation of the mutator), text, avatar and stars.
Hello == <<"h", "e", "l", "l", "o">>
PlaceholderAvatar == String(<<"https://api.builder.io/api/v1/image/assets/TEMP/...">>)
GivenAvatar == String(<<"https://example.org/me.png">>)

\* The review every seeded file holds.
SeedReview ==
  [id |-> <<0, 0>>, text |-> String(<<"o", "l", "d">>),
   avatar |-> PlaceholderAvatar, stars |-> Num(4)]

(***************************************************************************)
(* The remote store (the GitHub contents API), from its contract in        *)
(* spec.md sections 3 and 6.  The store answers every request, and its     *)
(* answer tells what it did: a write answered with a failure was not       *)
(* taken.  Each accepted write gets a sha no caller has seen.              *)
(***************************************************************************)
AbsentRemote == [sha |-> NoSha, text |-> BlankText]
InitialRemotes ==
  {AbsentRemote} \cup
  {[sha |-> 1, text |-> t] :
     t \in {BlankText, ArrayText(<<SeedReview>>), MalformedText, ObjectText,
            StringText(<<"a", "b", "c">>)}}

\* A write is accepted iff the token matches the current one, or none is
\* given and there is no object.
StoreAccepts(r, body) ==
  IF body.hasSha THEN r.sha # NoSha /\ body.sha = r.sha ELSE r.sha = NoSha

\* The statuses the store may answer a GET with: 404 for no object, 200
\* with the file, or a failure (500 stands for every other status).
GetStatuses(r) == (IF r.sha = NoSha THEN {404} ELSE {200}) \cup {500}

\* The statuses the store may answer a PUT with.  A rejected write that
\* carried a token is a conflict; one that carried none is rejected as a
\* conflict or as unprocessable.  500 stands for a failure of the store.
PutStatuses(r, body) ==
  (IF StoreAccepts(r, body) THEN {IF r.sha = NoSha THEN 201 ELSE 200}
   ELSE IF body.hasSha /\ r.sha # NoSha THEN {409}
   ELSE {409, 422})
  \cup {500}

\* The store's answer to a GET; seq tells how many writes it had accepted.
GetResponse(r, status) ==
  [status |-> status,
   content |-> Base64Encode(r.text),
   sha |-> r.sha,
   seq |-> Len(accepted)]

\* The store's answer to a PUT: the sha of the new blob when it took it.
PutResponse(status) ==
  [status |-> status, sha |-> nextSha, seq |-> Len(accepted)]

(***************************************************************************)
(* getConfig, lines 52-86                                                  *)
(***************************************************************************)
\* A getConfig without the check of lines 72-74.
getConfigNoRepoCheck(e) ==
  IF Falsy(e.token)
  THEN [ok |-> FALSE,
        error |-> GitHubConfigError("Missing GITHUB_TOKEN environment variable")]
  ELSE IF Falsy(e.owner)
  THEN [ok |-> FALSE,
        error |-> GitHubConfigError("Missing GITHUB_OWNER environment variable")]
  ELSE [ok |-> TRUE, error |-> NoError]

getConfig(e) ==
  IF Falsy(e.token)
  THEN [ok |-> FALSE,
        error |-> GitHubConfigError("Missing GITHUB_TOKEN environment variable")]
  ELSE IF Falsy(e.owner)
  THEN [ok |-> FALSE,
        error |-> GitHubConfigError("Missing GITHUB_OWNER environment variable")]
  ELSE IF Falsy(e.repo)
  THEN [ok |-> FALSE,
        error |-> GitHubConfigError("Missing GITHUB_REPO environment variable")]
  ELSE [ok |-> TRUE, error |-> NoError]

(***************************************************************************)
(* getMaxRetries and MAX_RETRIES, lines 36-50                              *)
(***************************************************************************)
DEFAULT_MAX_RETRIES == 5

\* The values tried for the three settings: unset, "", "abc", "0", "-1",
\* "2.5", "Infinity", "1" and "2".
RawEmpty == String(<<>>)
RawWord == String(<<"a", "b", "c">>)
RawZero == String(<<"0">>)
RawMinusOne == String(<<"-", "1">>)
RawFraction == String(<<"2", ".", "5">>)
RawInfinity == String(<<"I", "n", "f", "i", "n", "i", "t", "y">>)
RawOne == String(<<"1">>)
RawTwo == String(<<"2">>)

RawValues ==
  {UndefinedValue, RawEmpty, RawWord, RawZero, RawMinusOne, RawFraction,
   RawInfinity, RawOne, RawTwo}

getMaxRetries(e) ==
  LET raw == Coalesce(Coalesce(e.GITHUB_MAX_RETRIES, e.GITHUB_RETRY_LIMIT),
                      e.MAX_RETRIES)
      parsed == IF Not(raw) THEN UndefinedValue ELSE Number(raw) IN
  IF Not(parsed) \/ IsNaN(parsed) \/ Less(parsed, Num(1))
  THEN Num(DEFAULT_MAX_RETRIES)
  ELSE parsed

\* Line 50: computed once, from the environment the process started with.
MAX_RETRIES == getMaxRetries(env)

(***************************************************************************)
(* Request bodies of POST /api/reviews (routes/reviews.ts, line 44)        *)
(***************************************************************************)
Body(text, avatar, stars) == [text |-> text, avatar |-> avatar, stars |-> stars]

\* The body behind the add mutator of a direct mutateReviewsWithRetry call.
PlainBody == Body(String(Hello), UndefinedValue, UndefinedValue)

\* "hello" with white space around it, and white space alone.
Padded == <<" ", "\t">> \o Hello \o <<"\n", " ">>
Blank == <<" ", "\t", "\n">>

\* The texts tried: none, a number, "", white space, "hello", and "hello"
\* with white space around it.
Texts ==
  {UndefinedValue, Num(42), String(<<>>), String(Blank),
   String(Hello), String(Padded)}

\* The bodies tried: every text alone, and the padded "hello" with an
\* avatar and three stars, and with no avatar and zero stars.
Bodies ==
  {Body(t, UndefinedValue, UndefinedValue) : t \in Texts} \cup
  {Body(String(Padded), GivenAvatar, Num(3)),
   Body(String(Padded), UndefinedValue, Num(0))}

(***************************************************************************)
(* The frame of a call                                                     *)
(***************************************************************************)
IdleFrame ==
  [op |-> "none", pc |-> "idle",
   \* the handler that made the call, its request body and its response
   handler |-> "none", request |-> PlainBody,
   response |-> [status |-> 0, body |-> UndefinedValue],
   \* the arguments and locals of mutateReviewsWithRetry
   mutator |-> "none", retries |-> Num(0), attempt |-> 0, lastError |-> NoError,
   reviews |-> ArrayValue(<<>>), sha |-> NoSha,
   snapshot |-> <<>>, next |-> <<>>, result |-> UndefinedValue,
   \* the body of the PUT last issued
   body |-> [content |-> Base64Encode(BlankText), hasSha |-> FALSE, sha |-> NoSha],
   \* the answer whose body is being read
   answer |-> [status |-> 0],
   \* how the call ended
   outcome |-> [kind |-> "pending", value |-> UndefinedValue, error |-> NoError],
   \* history: the requests issued and the mutator's invocations
   gets |-> 0, puts |-> 0, mutations |-> 0,
   \* history: the answers seen (409s, other failures) and the last of them
   conflicts |-> 0, failures |-> 0,
   answered |-> "none", status |-> 0,
   \* history: the attempt and the store's write count of the last GET
   \* answered, of the last PUT issued and answered, of the last 409
   fetchAttempt |-> 0, fetchSeq |-> 0,
   putAttempt |-> 0, putSeq |-> 0, conflictSeq |-> 0]

Throw(f, err) ==
  [f EXCEPT !.pc = "done",
            !.outcome = [kind |-> "threw", value |-> UndefinedValue, error |-> err]]

Return(f, v) ==
  [f EXCEPT !.pc = "done",
            !.outcome = [kind |-> "returned", value |-> v, error |-> NoError]]

\* History only: the call has the store's answer to its GET or PUT.  A GET
\* failed when the status is neither 404 nor in 200-299, or the file is no
\* JSON; a PUT failed when the status is neither 409 nor in 200-299.
SeenGet(f, resp) ==
  [f EXCEPT !.answered = "get", !.status = resp.status,
            !.fetchAttempt = f.attempt, !.fetchSeq = resp.seq,
            !.failures = IF \/ resp.status = 404
                            \/ /\ Ok(resp.status)
                               /\ Base64Decode(resp.content).text # "malformed"
                         THEN @ ELSE @ + 1]

SeenPut(f, resp) ==
  [f EXCEPT !.answered = "put", !.status = resp.status, !.putSeq = resp.seq,
            !.conflicts = IF resp.status = 409 THEN @ + 1 ELSE @,
            !.conflictSeq = IF resp.status = 409 THEN resp.seq ELSE @,
            !.failures = IF resp.status = 409 \/ Ok(resp.status) THEN @ ELSE @ + 1]

(***************************************************************************)
(* fetchReviewsFromGitHub, lines 96-133                                    *)
(***************************************************************************)
\* Lines 97-102: the configuration is read, then the GET is issued.
fetchStart(f) ==
  LET config == getConfig(env) IN
  IF config.ok
  THEN [f EXCEPT !.pc = "fetching", !.gets = @ + 1]
  ELSE Throw(f, config.error)

\* An answer read without the 404 case of lines 104-106.
fetchResultNo404(resp) ==
  IF ~Ok(resp.status)
  THEN [ok |-> FALSE, reviews |-> ArrayValue(<<>>), sha |-> NoSha,
        error |-> Error("Failed to fetch reviews from GitHub")]
  ELSE LET rawContent == Trim(Base64Decode(resp.content))
           parsed == JSONParse(rawContent) IN
       IF EmptyString(rawContent)
       THEN [ok |-> TRUE, reviews |-> ArrayValue(<<>>), sha |-> resp.sha,
             error |-> NoError]
       ELSE IF parsed.ok
       THEN [ok |-> TRUE, reviews |-> parsed.value, sha |-> resp.sha,
             error |-> NoError]
       ELSE [ok |-> FALSE, reviews |-> ArrayValue(<<>>), sha |-> NoSha,
             error |-> Error("reviews.json in GitHub repository contains invalid JSON")]

\* Lines 104-132: what the function makes of the store's answer.
fetchResult(resp) ==
  IF resp.status = 404
  THEN [ok |-> TRUE, reviews |-> ArrayValue(<<>>), sha |-> NoSha, error |-> NoError]
  ELSE IF ~Ok(resp.status)
  THEN [ok |-> FALSE, reviews |-> ArrayValue(<<>>), sha |-> NoSha,
        error |-> Error("Failed to fetch reviews from GitHub")]
  ELSE LET rawContent == Trim(Base64Decode(resp.content))
           parsed == JSONParse(rawContent) IN
       IF EmptyString(rawContent)
       THEN [ok |-> TRUE, reviews |-> ArrayValue(<<>>), sha |-> resp.sha,
             error |-> NoError]
       ELSE IF parsed.ok
       THEN [ok |-> TRUE, reviews |-> parsed.value, sha |-> resp.sha,
             error |-> NoError]
       ELSE [ok |-> FALSE, reviews |-> ArrayValue(<<>>), sha |-> NoSha,
             error |-> Error("reviews.json in GitHub repository contains invalid JSON")]

\* A direct call (line 34 of routes/reviews.ts): the answer ends it.
fetchEnd(f, resp) ==
  LET got == fetchResult(resp) IN
  IF got.ok
  THEN Return([f EXCEPT !.reviews = got.reviews, !.sha = got.sha],
              [type |-> "ReviewsWithSha", reviews |-> got.reviews, sha |-> got.sha])
  ELSE Throw(f, got.error)

(***************************************************************************)
(* persistReviewsToGitHub, lines 135-179                                   *)
(***************************************************************************)
\* A body that never carries the sha.
persistBodyNoSha(items, sha) ==
  [content |-> Base64Encode(JSONStringify(items)),
   hasSha |-> FALSE,
   sha |-> NoSha]

\* Lines 143-151: the body of the PUT; the sha goes in only when truthy.
persistBody(items, sha) ==
  [content |-> Base64Encode(JSONStringify(items)),
   hasSha |-> sha # NoSha,
   sha |-> sha]

\* Lines 139-164: the configuration is read, then the PUT is issued.
persistStart(f, items, sha) ==
  LET config == getConfig(env) IN
  IF config.ok
  THEN [f EXCEPT !.pc = "persisting", !.body = persistBody(items, sha),
                 !.puts = @ + 1, !.putAttempt = f.attempt]
  ELSE Throw(f, config.error)

\* An answer read without the response.ok check of line 170.
persistResultLax(resp) ==
  IF resp.status = 409
  THEN [ok |-> FALSE, sha |-> NoSha,
        error |-> GitHubConflictError("GitHub file changed during update")]
  ELSE [ok |-> TRUE, sha |-> resp.sha, error |-> NoError]

\* Lines 166-178: what the function makes of the store's answer.
persistResult(resp) ==
  IF resp.status = 409
  THEN [ok |-> FALSE, sha |-> NoSha,
        error |-> GitHubConflictError("GitHub file changed during update")]
  ELSE IF ~Ok(resp.status)
  THEN [ok |-> FALSE, sha |-> NoSha,
        error |-> Error("Failed to persist reviews to GitHub")]
  ELSE [ok |-> TRUE, sha |-> resp.sha, error |-> NoError]

\* A direct call: the answer ends it.
persistEnd(f, resp) ==
  LET put == persistResult(resp) IN
  IF put.ok THEN Return(f, [type |-> "sha", sha |-> put.sha])
  ELSE Throw(f, put.error)

(***************************************************************************)
(* The mutators the handlers of src/server/routes/reviews.ts pass          *)
(***************************************************************************)
Mutators == {"add", "clear"}

\* An add mutator that puts the new review first.
MutatePrepend(m, req, c, a, current) ==
  IF m = "add"
  THEN LET newReview == [id |-> <<c, a>>,
                         text |-> StringTrim(req.text),
                         avatar |-> Or(req.avatar, PlaceholderAvatar),
                         stars |-> Or(req.stars, Num(5))] IN
       [next |-> <<newReview>> \o current,
        result |-> [type |-> "review", review |-> newReview]]
  ELSE [next |-> <<>>, result |-> UndefinedValue]

\* addReview, lines 54-70, and clearReviews, lines 85-88.  The add mutator
\* closes over the request body req.  Every invocation of it makes a review
\* of a new id (Date.now() and Math.random()): the id is the call and the
\* attempt it ran in.
Mutate(m, req, c, a, current) ==
  IF m = "add"
  THEN LET newReview == [id |-> <<c, a>>,
                         text |-> StringTrim(req.text),
                         avatar |-> Or(req.avatar, PlaceholderAvatar),
                         stars |-> Or(req.stars, Num(5))] IN
       [next |-> Append(current, newReview),
        result |-> [type |-> "review", review |-> newReview]]
  ELSE [next |-> <<>>, result |-> UndefinedValue]

(***************************************************************************)
(* mutateReviewsWithRetry, lines 181-209                                   *)
(***************************************************************************)
\* A loop that retries the write it has, without reading again.
loopStale(f) ==
  IF Less(Num(f.attempt), f.retries)
  THEN IF f.attempt = 0
       THEN fetchStart([f EXCEPT !.attempt = @ + 1])
       ELSE persistStart([f EXCEPT !.attempt = @ + 1], f.next, f.sha)
  ELSE Throw(f, IF IsError(f.lastError) THEN f.lastError
                ELSE Error("Exceeded retry attempts when updating reviews"))

\* A loop that, before it tries again, waits for the other calls to end.
loopWait(f) ==
  IF Less(Num(f.attempt), f.retries)
  THEN IF f.attempt = 0
       THEN fetchStart([f EXCEPT !.attempt = @ + 1])
       ELSE [f EXCEPT !.pc = "waiting"]
  ELSE Throw(f, IF IsError(f.lastError) THEN f.lastError
                ELSE Error("Exceeded retry attempts when updating reviews"))

\* A loop that tests its guard after the first attempt only.
loopAtLeastOnce(f) ==
  IF f.attempt = 0 \/ Less(Num(f.attempt), f.retries)
  THEN fetchStart([f EXCEPT !.attempt = @ + 1])
  ELSE Throw(f, IF IsError(f.lastError) THEN f.lastError
                ELSE Error("Exceeded retry attempts when updating reviews"))

\* A loop that does not count its attempts.
loopNoIncrement(f) ==
  IF Less(Num(f.attempt), f.retries)
  THEN fetchStart(f)
  ELSE Throw(f, IF IsError(f.lastError) THEN f.lastError
                ELSE Error("Exceeded retry attempts when updating reviews"))

\* Lines 188-190 and 206-208: the loop guard, then the next attempt's
\* fetch, or the throw after the loop.
loop(f) ==
  IF Less(Num(f.attempt), f.retries)
  THEN fetchStart([f EXCEPT !.attempt = @ + 1])
  ELSE Throw(f, IF IsError(f.lastError) THEN f.lastError
                ELSE Error("Exceeded retry attempts when updating reviews"))

\* A snapshot taken once, in the first attempt, and kept.
snapshotStale(f, fetched) ==
  IF f.attempt > 1 THEN f.snapshot ELSE Spread(fetched)

\* Line 191: const snapshot = [...reviews].
snapshotOf(f, fetched) == Spread(fetched)

\* A catch block that gives up one attempt early.
shouldRetryEarly(error, attempt, retries) ==
  error.name = "GitHubConflictError" /\ Less(Num(attempt + 1), retries)

\* A catch block that never retries.
shouldRetryNever(error, attempt, retries) == FALSE

\* A catch block that retries whatever the error.
shouldRetryAnyError(error, attempt, retries) ==
  Less(Num(attempt), retries)

\* Line 199: whether the catch block goes round the loop again.
shouldRetry(error, attempt, retries) ==
  error.name = "GitHubConflictError" /\ Less(Num(attempt), retries)

\* A call that keeps the result of its first attempt.
afterFetchFirstResult(f, c, resp) ==
  LET got == fetchResult(resp) IN
  IF ~got.ok THEN Throw(f, got.error)
  ELSE IF ~Iterable(got.reviews)
  THEN Throw([f EXCEPT !.reviews = got.reviews, !.sha = got.sha],
             TypeError("reviews is not iterable"))
  ELSE LET snapshot == snapshotOf(f, got.reviews)
           m == Mutate(f.mutator, f.request, c, f.attempt, snapshot) IN
       persistStart([f EXCEPT !.reviews = got.reviews, !.sha = got.sha,
                              !.snapshot = snapshot, !.mutations = @ + 1,
                              !.next = m.next,
                              !.result = IF f.attempt > 1 THEN @ ELSE m.result],
                    m.next, got.sha)

\* Lines 190-195: the fetch has answered; snapshot, mutate, persist.
afterFetch(f, c, resp) ==
  LET got == fetchResult(resp) IN
  IF ~got.ok THEN Throw(f, got.error)
  ELSE IF ~Iterable(got.reviews)
  THEN Throw([f EXCEPT !.reviews = got.reviews, !.sha = got.sha],
             TypeError("reviews is not iterable"))
  ELSE LET snapshot == snapshotOf(f, got.reviews)
           m == Mutate(f.mutator, f.request, c, f.attempt, snapshot) IN
       persistStart([f EXCEPT !.reviews = got.reviews, !.sha = got.sha,
                              !.snapshot = snapshot, !.mutations = @ + 1,
                              !.next = m.next, !.result = m.result],
                    m.next, got.sha)

\* Lines 195-203: the persist has answered; return, retry or throw.
afterPersist(f, resp) ==
  LET put == persistResult(resp) IN
  IF put.ok THEN Return(f, f.result)
  ELSE LET caught == [f EXCEPT !.lastError = put.error] IN
       IF shouldRetry(put.error, f.attempt, f.retries)
       THEN loop(caught)
       ELSE Throw(caught, put.error)

(***************************************************************************)
(* The handlers of src/server/routes/reviews.ts                            *)
(***************************************************************************)
Json(status, body) == [status |-> status, body |-> body]

\* A handleError that knows no conflict.
handleErrorNoConflict(error) ==
  IF error.name = "GitHubConfigError"
  THEN Json(500, [error |-> error.message])
  ELSE Json(500, [error |-> "Unexpected reviews service error"])

\* Lines 15-29.
handleError(error) ==
  IF error.name = "GitHubConflictError"
  THEN Json(409, [error |-> "Conflict while updating reviews. Please retry shortly."])
  ELSE IF error.name = "GitHubConfigError"
  THEN Json(500, [error |-> error.message])
  ELSE Json(500, [error |-> "Unexpected reviews service error"])

\* Lines 34-39, 73-77 and 91-94: the awaited call has ended, and the
\* handler answers.
respond(f) ==
  IF f.handler = "none" \/ f.pc # "done" THEN f
  ELSE [f EXCEPT !.response =
          IF f.outcome.kind = "threw" THEN handleError(f.outcome.error)
          ELSE CASE f.handler = "getReviews" ->
                      Json(200, [reviews |-> f.outcome.value.reviews])
                 [] f.handler = "addReview" ->
                      Json(201, [review |-> f.outcome.value.review])
                 [] OTHER ->
                      Json(200, [message |-> "All reviews cleared successfully"])]

\* A check of the text that does not trim it.
invalidTextNoTrim(text) ==
  \/ Not(text)
  \/ TypeOf(text) # "string"

\* Line 46: !text || typeof text !== "string" || text.trim().length === 0.
invalidText(text) ==
  \/ Not(text)
  \/ TypeOf(text) # "string"
  \/ Len(StringTrim(text).chars) = 0

\* Lines 32-40.
getReviews(f) ==
  respond(fetchStart([f EXCEPT !.op = "fetch", !.handler = "getReviews"]))

\* Lines 43-79.
addReview(f, body) ==
  IF invalidText(body.text)
  THEN [f EXCEPT !.handler = "addReview", !.request = body, !.pc = "done",
                 !.response = Json(400, [error |-> "Text is required and cannot be empty"])]
  ELSE respond(loop([f EXCEPT !.op = "mutate", !.handler = "addReview",
                              !.request = body, !.mutator = "add",
                              !.retries = MAX_RETRIES]))

\* Lines 82-95.
clearReviews(f) ==
  respond(loop([f EXCEPT !.op = "mutate", !.handler = "clearReviews",
                         !.mutator = "clear", !.retries = MAX_RETRIES]))

\* The code that runs once a fetch, or a persist, has its answer: the rest
\* of the function, of mutateReviewsWithRetry when it made the call, and of
\* the handler.
fetched(f, c, resp) ==
  respond(IF f.op = "mutate" THEN afterFetch(f, c, resp) ELSE fetchEnd(f, resp))

persisted(f, resp) ==
  respond(IF f.op = "mutate" THEN afterPersist(f, resp) ELSE persistEnd(f, resp))

(***************************************************************************)
(* The state machine                                                       *)
(***************************************************************************)
Init ==
  /\ env \in [token : EnvValues, owner : EnvValues, repo : EnvValues,
               GITHUB_MAX_RETRIES : {UndefinedValue},
               GITHUB_RETRY_LIMIT : {UndefinedValue},
               MAX_RETRIES : {UndefinedValue}]
  /\ remote \in InitialRemotes
  /\ initial = remote
  /\ nextSha = 2
  /\ call = [c \in Calls |-> IdleFrame]
  /\ accepted = <<>>

\* Calls are numbered in the order in which they are invoked.
Invocable(c) ==
  /\ call[c].pc = "idle"
  /\ \A d \in Calls : d < c => call[d].pc # "idle"

\* A caller (the GET handler) invokes fetchReviewsFromGitHub().
FetchCall(c) ==
  /\ Invocable(c)
  /\ call' = [call EXCEPT ![c] = fetchStart([@ EXCEPT !.op = "fetch"])]
  /\ UNCHANGED <<env, remote, nextSha, initial, accepted>>

\* A caller invokes mutateReviewsWithRetry(mutator, retries).
MutateCall(c) ==
  /\ Invocable(c)
  /\ \E m \in Mutators, k \in RetryArgs :
       call' = [call EXCEPT ![c] =
                  loop([@ EXCEPT !.op = "mutate", !.mutator = m,
                                 !.retries = Num(k)])]
  /\ UNCHANGED <<env, remote, nextSha, initial, accepted>>

\* A fetch that creates the file it does not find.
StoreGetCreates(c) ==
  /\ call[c].pc = "fetching"
  /\ \E status \in GetStatuses(remote) :
       LET resp == GetResponse(remote, status) IN
       /\ call' = [call EXCEPT ![c] =
                     IF status = 404 THEN fetched(SeenGet(@, resp), c, resp)
                     ELSE [SeenGet(@, resp) EXCEPT !.pc = "fetchRead",
                                                   !.answer = resp]]
       /\ remote' = IF status = 404
                    THEN [sha |-> nextSha, text |-> ArrayText(<<>>)]
                    ELSE remote
       /\ nextSha' = IF status = 404 THEN nextSha + 1 ELSE nextSha
  /\ UNCHANGED <<env, initial, accepted>>

\* The store answers the GET of call c (lines 100-102).  On 404 the call
\* runs on (lines 104-106); otherwise it starts reading the body (line 109
\* or 115).
StoreGet(c) ==
  /\ call[c].pc = "fetching"
  /\ \E status \in GetStatuses(remote) :
       LET resp == GetResponse(remote, status) IN
       call' = [call EXCEPT ![c] =
                  IF status = 404 THEN fetched(SeenGet(@, resp), c, resp)
                  ELSE [SeenGet(@, resp) EXCEPT !.pc = "fetchRead",
                                                !.answer = resp]]
  /\ UNCHANGED <<env, remote, nextSha, initial, accepted>>

\* The body of the GET's answer has been read (line 109 or 115), and the
\* call runs on.
FetchBody(c) ==
  /\ call[c].pc = "fetchRead"
  /\ call' = [call EXCEPT ![c] = fetched(@, c, @.answer)]
  /\ UNCHANGED <<env, remote, nextSha, initial, accepted>>

\* The store answers the PUT of call c (lines 160-164), taking the write if
\* it accepts it.  On 409 the call runs on (lines 166-168); otherwise it
\* starts reading the body (line 171 or 177).
StorePut(c) ==
  /\ call[c].pc = "persisting"
  /\ \E status \in PutStatuses(remote, call[c].body) :
       LET resp == PutResponse(status)
           taken == status \in {200, 201}
           text == Base64Decode(call[c].body.content) IN
       /\ remote' = IF taken THEN [sha |-> nextSha, text |-> text] ELSE remote
       /\ nextSha' = IF taken THEN nextSha + 1 ELSE nextSha
       /\ accepted' = IF taken
                      THEN Append(accepted,
                                  [call |-> c, attempt |-> call[c].putAttempt,
                                   sha |-> nextSha, text |-> text])
                      ELSE accepted
       /\ call' = [call EXCEPT ![c] =
                     IF status = 409 THEN persisted(SeenPut(@, resp), resp)
                     ELSE [SeenPut(@, resp) EXCEPT !.pc = "persistRead",
                                                   !.answer = resp]]
  /\ UNCHANGED <<env, initial>>

\* The body of the PUT's answer has been read (line 171 or 177), and the
\* call runs on.
PersistBody(c) ==
  /\ call[c].pc = "persistRead"
  /\ call' = [call EXCEPT ![c] = persisted(@, @.answer)]
  /\ UNCHANGED <<env, remote, nextSha, initial, accepted>>

Next ==
  \E c \in Calls :
    \/ FetchCall(c)
    \/ MutateCall(c)
    \/ StoreGet(c)
    \/ FetchBody(c)
    \/ StorePut(c)
    \/ PersistBody(c)

Spec == Init /\ [][Next]_vars

\* The store answers every request in the end: the fetch(url) of lines 100
\* and 160 and the reading of the body resolve.
SpecFair ==
  /\ Init
  /\ [][Next]_vars
  /\ \A c \in Calls :
       /\ WF_vars(StoreGet(c)) /\ WF_vars(FetchBody(c))
       /\ WF_vars(StorePut(c)) /\ WF_vars(PersistBody(c))

\* The arguments tried for a direct persistReviewsToGitHub(reviews, sha).
DirectReviews == {<<>>, <<[SeedReview EXCEPT !.id = <<0, 1>>]>>}
DirectShas == {NoSha, 1}

\* A caller invokes persistReviewsToGitHub(reviews, sha).
PersistCall(c) ==
  /\ Invocable(c)
  /\ \E items \in DirectReviews, s \in DirectShas :
       call' = [call EXCEPT ![c] = persistStart([@ EXCEPT !.op = "persist"], items, s)]
  /\ UNCHANGED <<env, remote, nextSha, initial, accepted>>

NextApi ==
  \E c \in Calls :
    \/ FetchCall(c)
    \/ MutateCall(c)
    \/ PersistCall(c)
    \/ StoreGet(c)
    \/ FetchBody(c)
    \/ StorePut(c)
    \/ PersistBody(c)

\* Every exported function of the service has callers.
SpecApi == Init /\ [][NextApi]_vars

\* The requests of the three routes (part_000, lines 78-80).
GetReviews(c) ==
  /\ Invocable(c)
  /\ call' = [call EXCEPT ![c] = getReviews(@)]
  /\ UNCHANGED <<env, remote, nextSha, initial, accepted>>

AddReview(c) ==
  /\ Invocable(c)
  /\ \E body \in Bodies : call' = [call EXCEPT ![c] = addReview(@, body)]
  /\ UNCHANGED <<env, remote, nextSha, initial, accepted>>

ClearReviews(c) ==
  /\ Invocable(c)
  /\ call' = [call EXCEPT ![c] = clearReviews(@)]
  /\ UNCHANGED <<env, remote, nextSha, initial, accepted>>

\* The server: the settings getMaxRetries reads are unset or give one
\* attempt.
InitHttp ==
  /\ env \in [token : EnvValues, owner : EnvValues, repo : EnvValues,
               GITHUB_MAX_RETRIES : {UndefinedValue, RawOne},
               GITHUB_RETRY_LIMIT : {UndefinedValue},
               MAX_RETRIES : {UndefinedValue}]
  /\ remote \in InitialRemotes
  /\ initial = remote
  /\ nextSha = 2
  /\ call = [c \in Calls |-> IdleFrame]
  /\ accepted = <<>>

NextHttp ==
  \E c \in Calls :
    \/ GetReviews(c)
    \/ AddReview(c)
    \/ ClearReviews(c)
    \/ StoreGet(c)
    \/ FetchBody(c)
    \/ StorePut(c)
    \/ PersistBody(c)

SpecHttp == InitHttp /\ [][NextHttp]_vars

\* The server under every setting of the three variables getMaxRetries
\* reads, with the repository configured and no file yet, serving clear
\* requests.
InitConfig ==
  /\ env \in [token : {"set"}, owner : {"set"}, repo : {"set"},
               GITHUB_MAX_RETRIES : RawValues, GITHUB_RETRY_LIMIT : RawValues,
               MAX_RETRIES : RawValues]
  /\ remote = AbsentRemote
  /\ initial = remote
  /\ nextSha = 2
  /\ call = [c \in Calls |-> IdleFrame]
  /\ accepted = <<>>

NextConfig ==
  \E c \in Calls :
    \/ ClearReviews(c)
    \/ StoreGet(c)
    \/ FetchBody(c)
    \/ StorePut(c)
    \/ PersistBody(c)

SpecConfig == InitConfig /\ [][NextConfig]_vars

(***************************************************************************)
(* History read back                                                       *)
(***************************************************************************)
MutateCalls == {c \in Calls : call[c].op = "mutate"}

\* The `retries` of a call when it is a whole number.
Whole(r) == r.num \div r.den
Done(c) == call[c].pc = "done"
Returned(c) == call[c].outcome.kind = "returned"
Threw(c) == call[c].outcome.kind = "threw"
ThrewNamed(c, name) == Threw(c) /\ call[c].outcome.error.name = name

\* The file after the store's n-th accepted write.
RemoteAt(n) ==
  IF n = 0 THEN initial ELSE [sha |-> accepted[n].sha, text |-> accepted[n].text]

\* What a file holds as fetched: an array, a string, or else (absent,
\* blank) no reviews.
ValueIn(r) ==
  IF r.sha # NoSha /\ r.text.text = "array" THEN ArrayValue(r.text.items)
  ELSE IF r.sha # NoSha /\ r.text.text = "string" THEN String(r.text.items)
  ELSE ArrayValue(<<>>)

\* The items a mutator is given for a file: its reviews, the characters of
\* a file that is the JSON of a string, none when it is absent or blank.
ItemsIn(r) ==
  IF r.sha # NoSha /\ r.text.text = "array" THEN r.text.items
  ELSE IF r.sha # NoSha /\ r.text.text = "string"
  THEN [i \in 1..Len(r.text.items) |->
          [type |-> "string", chars |-> <<r.text.items[i]>>]]
  ELSE <<>>

\* An item that is a review, with an id.
IsReview(item) == "id" \in DOMAIN item

\* The calls whose writes the store accepted.
Writers == {accepted[i].call : i \in 1..Len(accepted)}

\* The mutators of the first n accepted writes, applied one after another
\* to the initial reviews, each as invoked in the attempt that was accepted.
RECURSIVE Replay(_)
Replay(n) ==
  IF n = 0 THEN ItemsIn(initial)
  ELSE LET w == accepted[n] IN
       Mutate(call[w.call].mutator, call[w.call].request,
              w.call, w.attempt, Replay(n - 1)).next

\* The call holds the reviews and sha of a fetch that succeeded.
HasRead(c) ==
  /\ call[c].op \in {"fetch", "mutate"}
  /\ \/ call[c].op = "mutate" /\ call[c].answered = "put"
     \/ /\ call[c].answered = "get"
        /\ call[c].pc # "fetchRead"
        /\ call[c].status = 404 \/ Ok(call[c].status)
        /\ RemoteAt(call[c].fetchSeq).text.text # "malformed"

\* A required variable is unset or empty; the message that names the first.
MissingSetting ==
  Falsy(env.token) \/ Falsy(env.owner) \/ Falsy(env.repo)

FirstMissing ==
  IF Falsy(env.token) THEN "Missing GITHUB_TOKEN environment variable"
  ELSE IF Falsy(env.owner) THEN "Missing GITHUB_OWNER environment variable"
  ELSE "Missing GITHUB_REPO environment variable"

\* The calls made by a handler, and the index of a call's accepted write.
HandlerCalls == {c \in Calls : call[c].handler # "none"}
WriteOf(c) == CHOOSE i \in 1..Len(accepted) : accepted[i].call = c

\* A text the add handler must refuse: no string, or white space only.
BadText(t) ==
  \/ t.type # "string"
  \/ \A i \in 1..Len(t.chars) : t.chars[i] \in {" ", "\t", "\n"}

\* The first of the three settings that is set and not empty, if any.
FirstNonEmpty ==
  IF env.GITHUB_MAX_RETRIES \notin {UndefinedValue, RawEmpty}
  THEN env.GITHUB_MAX_RETRIES
  ELSE IF env.GITHUB_RETRY_LIMIT \notin {UndefinedValue, RawEmpty}
  THEN env.GITHUB_RETRY_LIMIT
  ELSE env.MAX_RETRIES

\* A setting that is a number of at least one, and the number it is.
ValidSetting(raw) == raw \in {RawOne, RawTwo, RawFraction, RawInfinity}
SettingValue(raw) ==
  CASE raw = RawOne -> Num(1)
    [] raw = RawTwo -> Num(2)
    [] raw = RawFraction -> Ratio(5, 2)
    [] OTHER -> Infinity

(***************************************************************************)
(* C1: no lost update.  Under every interleaving of mutateReviewsWithRetry *)
(* calls (add and clear) and reads, the file holds the result of applying  *)
(* the mutators of the accepted writes in the order the store accepted     *)
(* them; each call has at most one accepted write, and a finished call     *)
(* returned iff it has one: no successful update is missing or doubled,    *)
(* and no failed call's update is present.  A call whose write was         *)
(* accepted issues nothing more: it is reading the store's answer or has   *)
(* returned.                                                               *)
(***************************************************************************)
C1_NoLostUpdate ==
  /\ Len(accepted) = 0 => remote = initial
  /\ Len(accepted) > 0 => remote.text = ArrayText(Replay(Len(accepted)))
  /\ \A i, j \in 1..Len(accepted) : accepted[i].call = accepted[j].call => i = j
  /\ \A c \in MutateCalls : Done(c) => (Returned(c) <=> c \in Writers)
  /\ \A c \in Writers :
       /\ call[c].pc \in {"persistRead", "done"}
       /\ call[c].answered = "put" /\ Ok(call[c].status)
       /\ Done(c) => Returned(c)

\* Two calls both read "no document, no token"; both ended with success and
\* the file holds both updates.
C1_Witness ==
  /\ initial = AbsentRemote
  /\ Len(accepted) = 2
  /\ \A c \in Calls : call[c].op = "mutate" /\ call[c].mutator = "add" /\ Returned(c)
  /\ \E c \in Calls : call[c].conflicts = 1 /\ call[c].conflictSeq = 1
  /\ Len(remote.text.items) = 2

(***************************************************************************)
(* C2: retry re-reads.  Whenever a write of a mutate call was rejected as  *)
(* a conflict and the call went on, the attempt that follows has fetched   *)
(* anew before its mutator ran: the mutator's input is the store's content *)
(* at that new fetch, which the store served no earlier than it rejected   *)
(* the write.                                                              *)
(***************************************************************************)
C2_RetryRereads ==
  \A c \in MutateCalls :
    LET f == call[c] IN
    (f.pc \in {"persisting", "persistRead"} \/ (Done(c) /\ f.answered = "put")) =>
      /\ f.fetchAttempt = f.attempt
      /\ f.mutations = f.attempt
      /\ f.gets = f.attempt
      /\ f.snapshot = ItemsIn(RemoteAt(f.fetchSeq))
      /\ f.attempt > 1 => /\ f.conflicts >= f.attempt - 1
                          /\ f.fetchSeq >= f.conflictSeq \/ f.conflicts = f.attempt

\* A call in its second attempt, about to write what its mutator made of
\* the content another call's accepted write left.
C2_Witness ==
  \E c \in MutateCalls :
    /\ call[c].pc = "persisting"
    /\ call[c].attempt = 2
    /\ call[c].conflicts = 1
    /\ call[c].fetchSeq = 1
    /\ call[c].snapshot # ItemsIn(initial)

(***************************************************************************)
(* C3: bounded attempts.  A mutate call with retries = k >= 1 issues at    *)
(* most k GETs and k PUTs and invokes its mutator at most k times, under   *)
(* every interleaving; when every attempt it made ended in a write         *)
(* rejected as a conflict, it has thrown GitHubConflictError after exactly *)
(* k fetch/mutate/write cycles.                                            *)
(***************************************************************************)
C3_BoundedAttempts ==
  \A c \in MutateCalls :
    LET f == call[c]
        k == Whole(f.retries) IN
    k >= 1 =>
      /\ f.attempt <= k /\ f.gets <= k /\ f.mutations <= k /\ f.puts <= k
      /\ (Done(c) /\ f.conflicts = f.attempt) =>
           /\ ThrewNamed(c, "GitHubConflictError")
           /\ f.attempt = k /\ f.gets = k /\ f.mutations = k /\ f.puts = k

\* A call whose every write was rejected as a conflict has ended.
C3_Witness ==
  \E c \in MutateCalls :
    /\ Whole(call[c].retries) >= 1
    /\ Done(c)
    /\ call[c].conflicts = Whole(call[c].retries)
    /\ call[c].gets = Whole(call[c].retries)

(***************************************************************************)
(* C4: every PUT a mutate call issues carries the sha its GET of the same  *)
(* attempt returned (none when that GET found no file) and, as content,    *)
(* the mutator's output for the reviews that same GET returned.            *)
(***************************************************************************)
C4_WriteFromSameAttempt ==
  \A c \in MutateCalls :
    LET f == call[c]
        read == RemoteAt(f.fetchSeq) IN
    (f.pc \in {"persisting", "persistRead"} \/ (Done(c) /\ f.answered = "put")) =>
      /\ f.putAttempt = f.attempt /\ f.fetchAttempt = f.attempt
      /\ f.sha = read.sha
      /\ f.reviews = ValueIn(read)
      /\ f.body.hasSha = (read.sha # NoSha)
      /\ f.body.hasSha => f.body.sha = read.sha
      /\ f.body.content =
           Base64Encode(JSONStringify(
             Mutate(f.mutator, f.request, c, f.attempt, ItemsIn(read)).next))

\* A second attempt's PUT in flight, carrying the sha of the second GET.
C4_Witness ==
  \E c \in MutateCalls :
    /\ call[c].pc = "persisting"
    /\ call[c].attempt = 2
    /\ call[c].body.hasSha
    /\ call[c].body.sha = remote.sha
    /\ call[c].mutator = "add"

(***************************************************************************)
(* C5: failures other than conflicts are never retried.  A mutate call     *)
(* that saw a GET fail, or a PUT fail otherwise than with 409, ends there  *)
(* with that error, whatever attempts it had left: it saw one such         *)
(* failure, issued nothing after it (it is reading the failed answer or    *)
(* has thrown), and after a failed GET no PUT of that attempt.  A          *)
(* GitHubConfigError ends it before any request.                           *)
(***************************************************************************)
C5_NoRetryOfFailures ==
  \A c \in MutateCalls :
    LET f == call[c] IN
    /\ f.failures >= 1 =>
         /\ f.pc \in {"fetchRead", "persistRead", "done"}
         /\ Done(c) => Threw(c)
         /\ f.failures = 1
         /\ f.conflicts = f.attempt - 1
         /\ f.gets = f.attempt
         /\ f.answered = "get" =>
              /\ f.pc # "persistRead"
              /\ f.puts = f.attempt - 1
              /\ Done(c) =>
                   f.outcome.error =
                     (IF Ok(f.status)
                      THEN Error("reviews.json in GitHub repository contains invalid JSON")
                      ELSE Error("Failed to fetch reviews from GitHub"))
         /\ f.answered = "put" =>
              /\ f.pc # "fetchRead"
              /\ f.puts = f.attempt
              /\ Done(c) =>
                   f.outcome.error = Error("Failed to persist reviews to GitHub")
    /\ ThrewNamed(c, "GitHubConfigError") =>
         /\ f.outcome.error = getConfig(env).error
         /\ f.attempt = 1 /\ f.gets = 0 /\ f.puts = 0

\* A call with an attempt left whose PUT failed with a status other than
\* 409 has ended.
C5_Witness ==
  \E c \in MutateCalls :
    /\ call[c].retries = Num(2)
    /\ call[c].attempt = 1
    /\ call[c].answered = "put"
    /\ call[c].status \in {422, 500}
    /\ Done(c)

(***************************************************************************)
(* C6: GitHubConflictError is surfaced only on exhaustion.  A mutate call  *)
(* with retries = k >= 1 that threw it made k PUTs, each rejected with     *)
(* 409; after a 409 in attempt i < k the call is in attempt i + 1, its GET *)
(* issued.                                                                 *)
(***************************************************************************)
C6_ConflictOnlyOnExhaustion ==
  \A c \in MutateCalls :
    LET f == call[c]
        k == Whole(f.retries) IN
    k >= 1 =>
      /\ ThrewNamed(c, "GitHubConflictError") =>
           f.puts = k /\ f.conflicts = k /\ f.attempt = k
      /\ (f.conflicts >= 1 /\ f.conflicts < k) =>
           /\ f.attempt = f.conflicts + 1
           /\ f.gets = f.attempt
           /\ ~ThrewNamed(c, "GitHubConflictError")

\* A conflict in the first of two attempts, followed by a second attempt
\* that succeeded.
C6_Witness ==
  \E c \in MutateCalls :
    /\ call[c].retries = Num(2)
    /\ call[c].conflicts = 1
    /\ call[c].attempt = 2
    /\ Returned(c)

(***************************************************************************)
(* C7: a mutate call returns only after the store accepted a write of its  *)
(* own, and ends in exactly one way: a returned result or a thrown error.  *)
(***************************************************************************)
C7_SuccessMeansAccepted ==
  \A c \in MutateCalls :
    LET f == call[c] IN
    /\ Done(c) <=> f.outcome.kind \in {"returned", "threw"}
    /\ ~Done(c) => f.outcome.kind = "pending"
    /\ Returned(c) =>
         /\ \E i \in 1..Len(accepted) :
              accepted[i].call = c /\ accepted[i].attempt = f.attempt
         /\ f.status \in {200, 201}
         /\ f.outcome.value = f.result
         /\ ~IsError(f.outcome.error)
    /\ Threw(c) =>
         /\ IsError(f.outcome.error)
         /\ f.outcome.value = UndefinedValue
         /\ c \notin Writers

\* One call returned with its write accepted, another ended with an error.
C7_Witness ==
  \E c, d \in MutateCalls :
    /\ Returned(c) /\ c \in Writers
    /\ Threw(d) /\ call[d].puts >= 1

(***************************************************************************)
(* C8: the missing-document baseline.  A fetch answered 404 raises no      *)
(* error and yields no reviews and no sha; a PUT that carries no sha and   *)
(* reaches a store that has no file (no writer came in between) is         *)
(* answered 201 unless the store fails, and creates the file with the      *)
(* content sent.                                                           *)
(***************************************************************************)
C8_MissingDocumentBaseline ==
  \A c \in Calls :
    LET f == call[c] IN
    /\ (f.answered = "get" /\ f.status = 404) =>
         /\ RemoteAt(f.fetchSeq).sha = NoSha
         /\ f.reviews = ArrayValue(<<>>) /\ f.sha = NoSha
         /\ f.op = "fetch" =>
              /\ Returned(c)
              /\ f.outcome.value = [type |-> "ReviewsWithSha",
                                    reviews |-> ArrayValue(<<>>), sha |-> NoSha]
         /\ f.op = "mutate" =>
              /\ f.pc = "persisting" /\ f.snapshot = <<>> /\ ~f.body.hasSha
    /\ (/\ f.answered = "put" /\ ~f.body.hasSha
        /\ RemoteAt(f.putSeq).sha = NoSha /\ f.status # 500) =>
         /\ f.status = 201
         /\ f.pc \in {"persistRead", "done"}
         /\ Done(c) => Returned(c)
         /\ Len(accepted) > f.putSeq
         /\ accepted[f.putSeq + 1].call = c
         /\ RemoteAt(f.putSeq + 1).sha # NoSha
         /\ RemoteAt(f.putSeq + 1).text = Base64Decode(f.body.content)

\* A fetch found no file and returned nothing without failing; a persist
\* with no sha then created the file.
C8_Witness ==
  \E c, d \in Calls :
    /\ call[c].op = "fetch" /\ call[c].status = 404 /\ Returned(c)
    /\ call[d].op = "persist" /\ ~call[d].body.hasSha
    /\ call[d].status = 201 /\ Returned(d)
    /\ accepted = <<[call |-> d, attempt |-> 0, sha |-> remote.sha,
                     text |-> remote.text]>>
    /\ remote.sha # NoSha

(***************************************************************************)
(* C9: reading is repeatable and has no side effect.  The file changes     *)
(* only by an accepted write, never by a fetch; what a fetch returned is   *)
(* the file's sha as of the store's answer, and two fetches answered with  *)
(* no accepted write between them returned the same reviews and sha.       *)
(***************************************************************************)
C9_ReadRepeatable ==
  /\ remote = RemoteAt(Len(accepted))
  /\ \A c \in Calls :
       HasRead(c) =>
         /\ call[c].sha = RemoteAt(call[c].fetchSeq).sha
         /\ (call[c].op = "fetch" /\ Done(c)) =>
              /\ Returned(c)
              /\ call[c].outcome.value.reviews = call[c].reviews
              /\ call[c].outcome.value.sha = call[c].sha
  /\ \A c, d \in Calls :
       (HasRead(c) /\ HasRead(d) /\ call[c].fetchSeq = call[d].fetchSeq) =>
         /\ call[c].reviews = call[d].reviews
         /\ call[c].sha = call[d].sha

\* Two fetches of a file that holds a review, no write between them.
C9_Witness ==
  \E c, d \in Calls :
    /\ c # d
    /\ call[c].op = "fetch" /\ call[d].op = "fetch"
    /\ Returned(c) /\ Returned(d)
    /\ call[c].fetchSeq = call[d].fetchSeq
    /\ call[c].reviews = ArrayValue(<<SeedReview>>)
    /\ call[c].sha = 1

(***************************************************************************)
(* C10: the configuration is checked first.  With GITHUB_TOKEN,            *)
(* GITHUB_OWNER or GITHUB_REPO unset or empty, no GET and no PUT is ever   *)
(* issued and the file stays as it was; a fetch, a persist and a mutate    *)
(* call (retries >= 1) each throw the GitHubConfigError naming the first   *)
(* missing variable, the mutate call in its first attempt with its mutator *)
(* never invoked.                                                          *)
(***************************************************************************)
C10_EagerConfigCheck ==
  MissingSetting =>
    /\ remote = initial /\ accepted = <<>>
    /\ \A c \in Calls :
         LET f == call[c] IN
         /\ f.gets = 0 /\ f.puts = 0 /\ f.mutations = 0
         /\ f.pc \in {"idle", "done"}
         /\ (Done(c) /\ (f.op = "mutate" => Whole(f.retries) >= 1)) =>
              /\ Threw(c)
              /\ f.outcome.error = GitHubConfigError(FirstMissing)
              /\ f.attempt <= 1

\* With the repository unset, a mutate call with two attempts and a direct
\* persist have both thrown.
C10_Witness ==
  /\ ~Falsy(env.token) /\ ~Falsy(env.owner) /\ env.repo = Undefined
  /\ \E c, d \in Calls :
       /\ call[c].op = "mutate" /\ call[c].retries = Num(2)
       /\ ThrewNamed(c, "GitHubConfigError")
       /\ call[d].op = "persist"
       /\ ThrewNamed(d, "GitHubConfigError")

(***************************************************************************)
(* C11: a fetch of a file that exists but does not hold the JSON of an     *)
(* array of reviews (malformed JSON, blank text, JSON of another value)    *)
(* throws an Error and never returns that payload as the reviews: a direct *)
(* fetch answered 200 with such a file has thrown, and a mutate call       *)
(* answered so has thrown that Error without invoking its mutator in that  *)
(* attempt.                                                                *)
(***************************************************************************)
C11_InvalidPayloadFails ==
  \A c \in Calls :
    LET f == call[c]
        read == RemoteAt(f.fetchSeq) IN
    (/\ f.op \in {"fetch", "mutate"}
     /\ f.fetchAttempt = f.attempt
     /\ f.gets >= 1 /\ f.pc \notin {"fetching", "fetchRead"}
     /\ (f.answered = "get" /\ Ok(f.status)) \/ f.answered = "put"
     /\ read.sha # NoSha
     /\ read.text.text # "array") =>
      /\ ThrewNamed(c, "Error")
      /\ f.mutations = f.attempt - 1

(***************************************************************************)
(* C12: the handlers map every outcome of the call they await to exactly   *)
(* one response.  GitHubConflictError, thrown only after MAX_RETRIES       *)
(* conflicts, gives 409; GitHubConfigError gives 500 with the error's own  *)
(* message; any other error gives 500 with the generic message; a          *)
(* returned fetch gives 200 with the reviews fetched, a returned add 201   *)
(* with the review made, a returned clear 200 with the confirmation.  No   *)
(* call that threw is answered 2xx, and no response is sent before the     *)
(* call has ended.                                                         *)
(***************************************************************************)
C12_OutcomeMapping ==
  \A c \in HandlerCalls :
    LET f == call[c] IN
    /\ ~Done(c) => f.response.status = 0
    /\ (Done(c) /\ f.op # "none") =>
         /\ ThrewNamed(c, "GitHubConflictError") =>
              /\ f.response =
                   Json(409, [error |-> "Conflict while updating reviews. Please retry shortly."])
              /\ f.op = "mutate" /\ Num(f.conflicts) = f.retries
         /\ ThrewNamed(c, "GitHubConfigError") =>
              f.response = Json(500, [error |-> FirstMissing])
         /\ (Threw(c) /\ f.outcome.error.name \notin
                           {"GitHubConflictError", "GitHubConfigError"}) =>
              f.response = Json(500, [error |-> "Unexpected reviews service error"])
         /\ (Returned(c) /\ f.handler = "getReviews") =>
              f.response = Json(200, [reviews |-> f.reviews])
         /\ (Returned(c) /\ f.handler = "addReview") =>
              f.response = Json(201, [review |-> f.next[Len(f.next)]])
         /\ (Returned(c) /\ f.handler = "clearReviews") =>
              f.response = Json(200, [message |-> "All reviews cleared successfully"])
         /\ f.response.status \in 200..299 <=> Returned(c)
         /\ Threw(c) => f.response.status \in {409, 500}

\* With one attempt each, one add was answered 201 and the other 409.
C12_Witness ==
  \E c, d \in HandlerCalls :
    /\ call[c].handler = "addReview" /\ call[c].response.status = 201
    /\ call[d].handler = "addReview" /\ call[d].response.status = 409
    /\ call[d].conflicts = 1 /\ call[d].retries = Num(1)

(***************************************************************************)
(* C13: the add handler checks the text before it calls                    *)
(* mutateReviewsWithRetry.  A request whose text is absent, no string, or  *)
(* empty once trimmed is answered 400 with no call made: no GET, no PUT,   *)
(* no mutator invocation, and no write of the file stems from it.  Every   *)
(* other text passes.                                                      *)
(***************************************************************************)
C13_ValidationFirst ==
  \A c \in HandlerCalls :
    LET f == call[c] IN
    f.handler = "addReview" =>
      /\ BadText(f.request.text) =>
           /\ Done(c)
           /\ f.response = Json(400, [error |-> "Text is required and cannot be empty"])
           /\ f.op = "none" /\ f.outcome.kind = "pending"
           /\ f.attempt = 0 /\ f.gets = 0 /\ f.puts = 0 /\ f.mutations = 0
           /\ c \notin Writers
      /\ ~BadText(f.request.text) =>
           f.op = "mutate" /\ f.response.status # 400

\* A text of white space was refused while another request's add went in.
C13_Witness ==
  \E c, d \in HandlerCalls :
    /\ call[c].handler = "addReview"
    /\ call[c].request.text = String(Blank)
    /\ call[c].response.status = 400
    /\ call[d].handler = "addReview" /\ call[d].response.status = 201
    /\ Len(accepted) = 1 /\ Len(remote.text.items) = Len(ItemsIn(initial)) + 1

(***************************************************************************)
(* C14: a successful add appends exactly one review.  The write the store  *)
(* accepted from an add request holds the reviews the file held just       *)
(* before, in their order, followed by one new review: its text the        *)
(* request's text trimmed, its avatar the request's or else the            *)
(* placeholder, its stars the request's or else 5 when absent or zero.  An *)
(* add of "hello" to a store with no file leaves exactly one review.       *)
(***************************************************************************)
C14_AddAppendsOne ==
  \A i \in 1..Len(accepted) :
    LET w == accepted[i]
        f == call[w.call]
        before == ItemsIn(RemoteAt(i - 1))
        after == w.text.items
        item == after[Len(after)] IN
    f.handler = "addReview" =>
      /\ w.text.text = "array"
      /\ f.snapshot = before
      /\ Len(after) = Len(before) + 1
      /\ SubSeq(after, 1, Len(before)) = before
      /\ item.text = String(Hello)
      /\ item.avatar = (IF f.request.avatar = UndefinedValue
                        THEN PlaceholderAvatar ELSE f.request.avatar)
      /\ item.stars = (IF f.request.stars \in {UndefinedValue, Num(0)}
                       THEN Num(5) ELSE f.request.stars)
      /\ (initial = AbsentRemote /\ i = 1) => Len(after) = 1
      /\ f.pc \in {"persistRead", "done"}
      /\ Done(w.call) => f.response.status = 201
      /\ i = Len(accepted) => remote.text.items = Append(before, item)

\* A padded "hello" with zero stars and no avatar, added to a store with no
\* file.
C14_Witness ==
  \E c \in HandlerCalls :
    /\ initial = AbsentRemote
    /\ call[c].request = Body(String(Padded), UndefinedValue, Num(0))
    /\ call[c].response.status = 201
    /\ Len(accepted) = 1
    /\ remote.text = ArrayText(<<[id |-> <<c, 1>>, text |-> String(Hello),
                                  avatar |-> PlaceholderAvatar, stars |-> Num(5)]>>)

(***************************************************************************)
(* C15: the retries a handler passes are resolved by precedence.  Of       *)
(* GITHUB_MAX_RETRIES, GITHUB_RETRY_LIMIT and MAX_RETRIES, in that order,  *)
(* the first that is set and not empty decides: a setting that is set but  *)
(* empty is passed over for the next.  When none is left, or the one       *)
(* chosen is no number of at least one, the retries are 5.                 *)
(***************************************************************************)
C15_FirstNonEmptyWins ==
  \A c \in HandlerCalls :
    call[c].op = "mutate" =>
      call[c].retries =
        (IF ValidSetting(FirstNonEmpty)
         THEN SettingValue(FirstNonEmpty)
         ELSE Num(DEFAULT_MAX_RETRIES))

(***************************************************************************)
(* C16: the retries a handler passes are always a usable bound: a finite   *)
(* whole number of at least one, whatever the settings hold (nothing, an   *)
(* empty string, no number, zero, a negative, a fraction, Infinity, a      *)
(* positive whole number); and 5 when the setting chosen is zero, negative *)
(* or no number.                                                           *)
(***************************************************************************)
C16_UsableBound ==
  \A c \in HandlerCalls :
    LET r == call[c].retries
        raw == Coalesce(Coalesce(env.GITHUB_MAX_RETRIES, env.GITHUB_RETRY_LIMIT),
                        env.MAX_RETRIES) IN
    call[c].op = "mutate" =>
      /\ r.kind = "finite"
      /\ r.num % r.den = 0
      /\ r.num >= r.den
      /\ raw \in {UndefinedValue, RawEmpty, RawWord, RawZero, RawMinusOne} =>
           r = Num(DEFAULT_MAX_RETRIES)

(***************************************************************************)
(* C17: termination.  If the store answers every GET and PUT in the end,   *)
(* and the body of each answer arrives, every mutate call ends, by a       *)
(* return or by a throw, under every interleaving with the other calls and *)
(* even when each of its writes is rejected as a conflict.  A call that    *)
(* has not ended is waiting for the store alone: the answer to its         *)
(* request can be taken whatever the other calls are doing.                *)
(***************************************************************************)
C17_Termination ==
  /\ [](\A c \in MutateCalls :
          /\ call[c].pc \in {"fetching", "fetchRead", "persisting",
                             "persistRead", "done"}
          /\ call[c].pc = "fetching" => ENABLED StoreGet(c)
          /\ call[c].pc = "fetchRead" => ENABLED FetchBody(c)
          /\ call[c].pc = "persisting" => ENABLED StorePut(c)
          /\ call[c].pc = "persistRead" => ENABLED PersistBody(c))
  /\ \A c \in Calls : (call[c].op = "mutate") ~> (call[c].pc = "done")

\* Every call has ended, one of them with its only write rejected.
C17_Witness ==
  /\ \A d \in Calls : call[d].op = "mutate" /\ Done(d)
  /\ \E c \in Calls :
       /\ ThrewNamed(c, "GitHubConflictError")
       /\ call[c].conflicts = call[c].attempt
       /\ call[c].puts = 1

(***************************************************************************)
(* C18: the exhaustion guard.  A mutate call with retries <= 0 issues no   *)
(* GET and no PUT, never invokes its mutator and has no write accepted; it *)
(* throws the Error "Exceeded retry attempts when updating reviews", which *)
(* is neither GitHubConflictError nor GitHubConfigError (the configuration *)
(* is not even read), and never returns.                                   *)
(***************************************************************************)
C18_ExhaustionGuard ==
  \A c \in MutateCalls :
    LET f == call[c] IN
    Whole(f.retries) <= 0 =>
      /\ Done(c) /\ Threw(c) /\ ~Returned(c)
      /\ f.outcome.error = Error("Exceeded retry attempts when updating reviews")
      /\ f.outcome.value = UndefinedValue
      /\ f.attempt = 0 /\ f.gets = 0 /\ f.puts = 0 /\ f.mutations = 0
      /\ f.answered = "none"
      /\ c \notin Writers

\* Calls with retries 0 and -1 have thrown, with no repository configured
\* and the file as it was.
C18_Witness ==
  /\ MissingSetting
  /\ remote = initial /\ remote.sha # NoSha
  /\ \E c, d \in MutateCalls :
       /\ call[c].retries = Num(0) /\ call[c].mutator = "add"
       /\ call[d].retries = Num(-1) /\ call[d].mutator = "clear"
       /\ ThrewNamed(c, "Error") /\ ThrewNamed(d, "Error")

(***************************************************************************)
(* C19: the contention bound.  With N mutate calls and no other writer,    *)
(* each conflict a call sees stems from an accepted write of another call, *)
(* and each call has at most one: a call sees at most N - 1 conflicts.  So *)
(* when every call has retries >= N, none throws GitHubConflictError, and  *)
(* every call that has ended returned, unless the store failed it, the     *)
(* configuration is incomplete or the file held a value that cannot be     *)
(* iterated.                                                               *)
(***************************************************************************)
C19_ContentionBound ==
  LET N == Cardinality(MutateCalls) IN
  /\ \A c \in MutateCalls :
       /\ call[c].conflicts <= Cardinality(Writers \ {c})
       /\ call[c].conflicts <= N - 1
  /\ (\A c \in MutateCalls : ~Less(call[c].retries, Num(N))) =>
       \A c \in MutateCalls :
         /\ ~ThrewNamed(c, "GitHubConflictError")
         /\ (/\ Done(c) /\ call[c].failures = 0
             /\ ~MissingSetting /\ initial.text.text # "object") => Returned(c)

\* Two calls with two attempts each have both returned, one of them after a
\* conflict.
C19_Witness ==
  /\ MutateCalls = Calls
  /\ \A c \in Calls : call[c].retries = Num(NumCalls) /\ Returned(c)
  /\ \E c \in Calls : call[c].conflicts >= 1
  /\ Len(accepted) = NumCalls

\* With fewer attempts than calls, a call has thrown GitHubConflictError.
C19_BelowBound ==
  /\ MutateCalls = Calls
  /\ \A c \in Calls : call[c].retries = Num(NumCalls - 1) /\ call[c].failures = 0
  /\ \E c \in Calls : ThrewNamed(c, "GitHubConflictError")

(***************************************************************************)
(* C20: the result is the one persisted.  What a mutate call returns is    *)
(* the result of the mutator invocation whose output the store accepted,   *)
(* made in the attempt of that write from the reviews the file held just   *)
(* before it.  The review in the 201 response of an add is the last review *)
(* of the write accepted, and a review made in a rejected attempt is in no *)
(* accepted write.                                                         *)
(***************************************************************************)
C20_ResultIsPersisted ==
  /\ \A c \in MutateCalls :
       LET f == call[c]
           i == WriteOf(c)
           w == accepted[i] IN
       Returned(c) =>
         /\ c \in Writers
         /\ w.attempt = f.attempt
         /\ f.outcome.value =
              Mutate(f.mutator, f.request, c, w.attempt,
                     ItemsIn(RemoteAt(i - 1))).result
         /\ f.handler = "addReview" =>
              /\ f.response = Json(201, [review |-> w.text.items[Len(w.text.items)]])
              /\ f.response.body.review.id = <<c, w.attempt>>
  /\ \A i \in 1..Len(accepted) :
       \A k \in 1..Len(accepted[i].text.items) :
         LET item == accepted[i].text.items[k]
             id == item.id IN
         (IsReview(item) /\ id[1] \in Calls) =>
           \E j \in 1..i : accepted[j].call = id[1] /\ accepted[j].attempt = id[2]

\* An add answered 201 with the review of its second attempt; the review of
\* its first, rejected attempt is not in the file.
C20_Witness ==
  \E c \in HandlerCalls :
    /\ call[c].handler = "addReview"
    /\ call[c].conflicts = 1 /\ call[c].attempt = 2
    /\ call[c].response.status = 201
    /\ call[c].response.body.review.id = <<c, 2>>
    /\ remote.text.items[Len(remote.text.items)] = call[c].response.body.review
    /\ \A k \in 1..Len(remote.text.items) :
         IsReview(remote.text.items[k]) /\ remote.text.items[k].id # <<c, 1>>

====
